---- MODULE Spec2Model ----
(***************************************************************************)
(* Model of crash-python's x86_64 register-state recovery                  *)
(* (crash/arch/x86_64.py) and of its device-mapper bio decoders            *)
(* (crash/subsystem/storage/device_mapper.py).                             *)
(***************************************************************************)
EXTENDS Integers, Sequences, FiniteSets, TLC

VARIABLES
    \* ---- architecture part ----
    arch_rip,     \* x86_64Architecture.rip: address of 'thread_return'
    mem,          \* the memory snapshot: word stored at each byte address
    unreadable,   \* addresses whose read raises gdb.MemoryError
    active,       \* active[t]: thread t is Active (else Scheduled)
    task_regs,    \* task_regs[t]: thread.info.regs, the raw register snapshot
    task_sp,      \* task_sp[t]: task_struct['thread']['sp'], or NoField
    registers,    \* registers[t][r]: thread.registers[r].value
    done,         \* done[t]: which setup last completed on thread t
    last,         \* record of the last setup call (history)
    \* ---- device-mapper decoder part ----
    has_clone,    \* has_clone[c]: the tracking type of variant c has a 'clone' field
    missing,      \* field names absent from the tracking types (version skew)
    chain,        \* completion-callback names of the bios of the snapshot, child first
    cls_getter,   \* class attribute _get_clone_bio_rq_info / _get_clone_bio_tio
    probes,       \* probes[c]: how many times the layout probe of variant c ran
    inst,         \* the decoder instances constructed so far
    res,          \* record of the last decoder operation (history)
    walk          \* state of the chain walker

archVars == <<arch_rip, mem, unreadable, active, task_regs, task_sp, registers, done, last>>
dmVars == <<has_clone, missing, chain, cls_getter, probes, inst, res, walk>>
vars == <<archVars, dmVars>>

----------------------------------------------------------------------------
(* Bounds of the model *)

AddrSpace == 64      \* size of the (scaled-down) address space; words wrap modulo it
PageSize == 16       \* granularity of unreadable memory
NThreads == 2        \* threads of the session

(* Program constants *)

WordSize == 8        \* sizeof(unsigned long) on x86_64

Addr == 0 .. (AddrSpace - 1)
Threads == 1 .. NThreads
NoField == 0 - 1          \* the saved-context record has no 'sp' field

----------------------------------------------------------------------------
(* Registers *)

RegSeq == <<"rax", "rbx", "rbp", "rsp", "rip", "r12", "r13", "r14", "r15",
            "cs", "ss", "gs_base", "orig_ax", "rflags", "fs_base">>
RegNames == {RegSeq[i] : i \in 1 .. Len(RegSeq)}
Idx(r) == CHOOSE i \in 1 .. Len(RegSeq) : RegSeq[i] = r

\* (mutation of Excluded: one register dropped from the exclusion list)
Excluded_short == {"gs_base", "orig_ax", "rflags"}

\* the exclusion list of setup_thread_active
Excluded == {"gs_base", "orig_ax", "rflags", "fs_base"}

ZeroCnt == [r \in RegNames |-> 0]

\* thread.registers[reg].value = v, counting the write
WriteReg(st, r, v) ==
    [bank |-> [st.bank EXCEPT ![r] = v], cnt |-> [st.cnt EXCEPT ![r] = @ + 1]]

\* the keys of a snapshot in iteration order
SnapKeys(snap) == SelectSeq(RegSeq, LAMBDA r : r \in DOMAIN snap)

\* the loop of setup_thread_active over the keys of the snapshot
RECURSIVE ActiveLoop(_, _, _)
ActiveLoop(st, snap, keys) ==
    IF keys = <<>> THEN st
    ELSE LET reg == Head(keys)
         IN  IF reg \in Excluded
             THEN ActiveLoop(st, snap, Tail(keys))
             ELSE ActiveLoop(WriteReg(st, reg, snap[reg]), snap, Tail(keys))

SetupThreadActive(t) ==
    /\ active[t]
    /\ LET st == ActiveLoop([bank |-> registers[t], cnt |-> ZeroCnt],
                            task_regs[t], SnapKeys(task_regs[t]))
       IN  /\ registers' = [registers EXCEPT ![t] = st.bank]
           /\ last' = [op |-> "active", t |-> t, ok |-> TRUE, err |-> "none",
                       before |-> registers[t], cnt |-> st.cnt]
    /\ done' = [done EXCEPT ![t] = "active"]
    /\ UNCHANGED <<arch_rip, mem, unreadable, active, task_regs, task_sp>>
    /\ UNCHANGED dmVars

----------------------------------------------------------------------------
(* Scheduled threads *)

\* (mutation of PtrSub: byte arithmetic instead of word arithmetic)
PtrSub_bytes(p, k) == (p - k + AddrSpace) % AddrSpace

\* pointer arithmetic on 'unsigned long *': p - k steps k words back
PtrSub(p, k) == (p - k * WordSize + AddrSpace) % AddrSpace

Readable(a) == a \notin unreadable

\* the writes of setup_thread_scheduled, in source order
RECURSIVE WriteAll(_, _)
WriteAll(st, ws) ==
    IF ws = <<>> THEN st
    ELSE WriteAll(WriteReg(st, Head(ws)[1], Head(ws)[2]), Tail(ws))

\* (mutation of ScheduledPC: the word on top of the saved stack as the PC)
ScheduledPC_stack(t) == mem[task_sp[t]]

\* self.rip, the PC for blocked threads
ScheduledPC(t) == arch_rip

\* (mutation of ScheduledReads: the frame words are fetched only when they are
\* stored, after rsp, rbp and rip have been written)
ScheduledReads_lazy(t) ==
    IF task_sp[t] = NoField THEN [ok |-> FALSE, err |-> "LookupError", ws |-> <<>>]
    ELSE LET rsp == task_sp[t]
         IN  IF ~Readable(rsp) THEN [ok |-> FALSE, err |-> "MemoryError", ws |-> <<>>]
             ELSE LET rbp == mem[rsp]
                      bad == {k \in 1 .. 5 : ~Readable(PtrSub(rbp, k))}
                      early == << <<"rsp", rsp>>, <<"rbp", rbp>>, <<"rip", ScheduledPC(t)>> >>
                  IN  IF bad # {} THEN [ok |-> FALSE, err |-> "MemoryError", ws |-> early]
                      ELSE [ok |-> TRUE, err |-> "none",
                            ws |-> early \o << <<"rbx", mem[PtrSub(rbp, 1)]>>,
                                               <<"r12", mem[PtrSub(rbp, 2)]>>,
                                               <<"r13", mem[PtrSub(rbp, 3)]>>,
                                               <<"r14", mem[PtrSub(rbp, 4)]>>,
                                               <<"r15", mem[PtrSub(rbp, 5)]>>,
                                               <<"cs", 2 * 8>>,
                                               <<"ss", 3 * 8>> >>]

\* the reads of setup_thread_scheduled: the sequence of writes they lead to,
\* or the error the first failing read raises
ScheduledReads(t) ==
    IF task_sp[t] = NoField THEN [ok |-> FALSE, err |-> "LookupError", ws |-> <<>>]
    ELSE LET rsp == task_sp[t]
         IN  IF ~Readable(rsp) THEN [ok |-> FALSE, err |-> "MemoryError", ws |-> <<>>]
             ELSE LET rbp == mem[rsp]
                      bad == {k \in 1 .. 5 : ~Readable(PtrSub(rbp, k))}
                  IN  IF bad # {} THEN [ok |-> FALSE, err |-> "MemoryError", ws |-> <<>>]
                      ELSE [ok |-> TRUE, err |-> "none",
                            ws |-> << <<"rsp", rsp>>,
                                      <<"rbp", rbp>>,
                                      <<"rip", ScheduledPC(t)>>,
                                      <<"rbx", mem[PtrSub(rbp, 1)]>>,
                                      <<"r12", mem[PtrSub(rbp, 2)]>>,
                                      <<"r13", mem[PtrSub(rbp, 3)]>>,
                                      <<"r14", mem[PtrSub(rbp, 4)]>>,
                                      <<"r15", mem[PtrSub(rbp, 5)]>>,
                                      <<"cs", 2 * 8>>,
                                      <<"ss", 3 * 8>> >>]

SetupThreadScheduled(t) ==
    /\ ~active[t]
    /\ LET rd == ScheduledReads(t)
           st == WriteAll([bank |-> registers[t], cnt |-> ZeroCnt], rd.ws)
       IN  /\ registers' = [registers EXCEPT ![t] = st.bank]
           /\ last' = [op |-> "scheduled", t |-> t, ok |-> rd.ok, err |-> rd.err,
                       before |-> registers[t], cnt |-> st.cnt]
           /\ done' = [done EXCEPT ![t] = IF rd.ok THEN "scheduled" ELSE @]
    /\ UNCHANGED <<arch_rip, mem, unreadable, active, task_regs, task_sp>>
    /\ UNCHANGED dmVars

----------------------------------------------------------------------------
(* Sessions the architecture part starts from *)

SymbolAddrs == {17, 42}
MemSnapshots == {[a \in Addr |-> (a * m + 1) % AddrSpace] : m \in {3, 5}}
UnreadableSets == {{}} \cup {{a \in Addr : a \div PageSize = p} : p \in 0 .. ((AddrSpace - 1) \div PageSize)}
SnapKeySets == {RegNames, RegNames \ {"rax", "cs", "fs_base"}, {"rip", "rsp", "rflags"}}
Snapshots == {[r \in ks |-> (Idx(r) * 5 + s) % AddrSpace] : ks \in SnapKeySets, s \in {7, 8}}
SpChoices == {NoField, 0, 8, 24, 40}
InitBanks == {[r \in RegNames |-> (Idx(r) * 3 + b) % AddrSpace] : b \in {1, 2}}
EmptySnap == [r \in {} |-> 0]

ArchInit ==
    /\ arch_rip \in SymbolAddrs
    /\ mem \in MemSnapshots
    /\ unreadable \in UnreadableSets
    /\ active \in [Threads -> BOOLEAN]
    /\ task_regs \in [Threads -> Snapshots \cup {EmptySnap}]
    /\ \A t \in Threads : (task_regs[t] = EmptySnap) <=> ~active[t]
    /\ task_sp \in [Threads -> SpChoices]
    /\ \A t \in Threads : active[t] => task_sp[t] = 0
    /\ \E b \in InitBanks : registers = [t \in Threads |-> b]
    /\ done = [t \in Threads |-> "no"]
    /\ last = [op |-> "none", t |-> 0, ok |-> TRUE, err |-> "none",
               before |-> ZeroCnt, cnt |-> ZeroCnt]

----------------------------------------------------------------------------
(* Device-mapper decoders: the snapshot they read *)

MaxChain == 2        \* cloning layers of the bio chain of the snapshot
MaxInst == 2         \* decoder instances constructed in a session
Stride == 16         \* distance between the bios of the snapshot
CloneOffset == 4     \* offset of the embedded 'clone' bio in its tracking object

Req == "ClonedBioReqDecoder"
Bio == "ClonedBioDecoder"
Classes == {Req, Bio}
NoMatch == "NoMatch"

\* __endio__ of each class, and the registry the two register() calls fill
Endio(cls) == IF cls = Req THEN "end_clone_bio" ELSE "clone_endio"
Lookup(name) ==
    IF \E c \in Classes : Endio(c) = name
    THEN CHOOSE c \in Classes : Endio(c) = name
    ELSE NoMatch

\* typed values: pointers, and the markers for an attribute never assigned
Ptr(a, ty) == [k |-> "ptr", a |-> a, ty |-> ty]
Unset == [k |-> "unset", a |-> 0, ty |-> ""]
None == [k |-> "none", a |-> 0, ty |-> ""]
Garbage == [k |-> "ptr", a |-> 0, ty |-> "garbage"]
Raised(e) == [k |-> "error", a |-> 0, ty |-> e]
IsError(v) == v.k = "error"

\* the bios of the snapshot: bio k is a clone made by the layer chain[k], of
\* bio k+1; the last bio is the origin
NBios == Len(chain)
Layers == 1 .. (NBios - 1)
BioAddr(k) == k * Stride
IsBio(a) == \E k \in 1 .. NBios : BioAddr(k) = a
BioIdx(a) == CHOOSE k \in 1 .. NBios : BioAddr(k) = a
EndioAt(a) == IF IsBio(a) THEN chain[BioIdx(a)] ELSE "unknown"
ClsOf(k) == Lookup(chain[k])

\* where the kernel keeps the tracking object of clone k, per its layout
TrackType(cls) == IF cls = Req THEN "dm_rq_clone_bio_info" ELSE "dm_target_io"
TrackAddr(k) ==
    IF has_clone[ClsOf(k)] THEN BioAddr(k) - CloneOffset
    ELSE BioAddr(k) + (Stride \div 2)
RqTioAddr(k) == BioAddr(k) + 2
IoAddr(k) == BioAddr(k) + 1

\* value of field f of the object of type ty at address a
HeapField(ty, a, f) ==
    IF ty = "bio" /\ IsBio(a) THEN
        LET k == BioIdx(a)
        IN  CASE f = "bi_private" ->
                   IF k \in Layers /\ ~has_clone[ClsOf(k)]
                   THEN Ptr(TrackAddr(k), "void") ELSE Ptr(0, "void")
              [] f = "bi_bdev" -> Ptr(k, "block_device")
              [] f = "bi_sector" -> Ptr(100 + k, "sector_t")
              [] OTHER -> Garbage
    ELSE IF ty = "dm_rq_clone_bio_info"
            /\ \E k \in Layers : ClsOf(k) = Req /\ TrackAddr(k) = a THEN
        LET k == CHOOSE j \in Layers : ClsOf(j) = Req /\ TrackAddr(j) = a
        IN  CASE f = "tio" -> Ptr(RqTioAddr(k), "dm_rq_target_io")
              [] f = "orig" -> Ptr(BioAddr(k + 1), "bio")
              [] OTHER -> Garbage
    ELSE IF ty = "dm_target_io"
            /\ \E k \in Layers : ClsOf(k) = Bio /\ TrackAddr(k) = a THEN
        LET k == CHOOSE j \in Layers : ClsOf(j) = Bio /\ TrackAddr(j) = a
        IN  CASE f = "io" -> Ptr(IoAddr(k), "dm_io")
              [] OTHER -> Garbage
    ELSE IF ty = "dm_io" /\ \E k \in Layers : ClsOf(k) = Bio /\ IoAddr(k) = a THEN
        LET k == CHOOSE j \in Layers : ClsOf(j) = Bio /\ IoAddr(j) = a
        IN  CASE f = "bio" -> Ptr(BioAddr(k + 1), "bio")
              [] OTHER -> Garbage
    ELSE Garbage

\* gdb.Value.__getitem__: v[f]; a field the type lacks raises gdb.error
GetItem(v, f) ==
    IF IsError(v) THEN v
    ELSE IF f \in missing THEN Raised("gdb.error")
    ELSE HeapField(v.ty, v.a, f)

\* gdb.Value.cast to a pointer type: same address, new target type
Cast(v, ty) == IF IsError(v) THEN v ELSE Ptr(v.a, ty)

\* crash.util.container_of: the structure of type ty that embeds v as member
container_of(v, ty, member) ==
    IF IsError(v) THEN v
    ELSE IF member = "clone" THEN Ptr(v.a - CloneOffset, ty) ELSE Garbage

\* crash.subsystem.storage.block_device_name
block_device_name(bdev) == <<"dev", bdev.a>>

\* the _types collection of each class: only declared names resolve
DeclaredTypes(cls) ==
    IF cls = Req THEN {"dm_rq_clone_bio_info_p_type"} ELSE {"dm_target_io_p_type"}
TypeTarget(name) ==
    IF name = "dm_rq_clone_bio_info_p_type" THEN "dm_rq_clone_bio_info"
    ELSE IF name = "dm_target_io_p_type" THEN "dm_target_io"
    ELSE "dm_clone_bio_info"
TypeDeclared(cls, name) == name \in DeclaredTypes(cls)

\* '{:x}'.format(n)
HexDigits == <<"0", "1", "2", "3", "4", "5", "6", "7", "8", "9", "a", "b", "c", "d", "e", "f">>
RECURSIVE Hex(_)
Hex(n) == IF n < 16 THEN <<HexDigits[n + 1]>> ELSE Hex(n \div 16) \o <<HexDigits[(n % 16) + 1]>>

----------------------------------------------------------------------------
(* Device-mapper decoders: the two classes *)

NoGetter == "None"
OldGetter(cls) ==
    IF cls = Req THEN "_get_clone_bio_rq_info_old" ELSE "_get_clone_bio_tio_old"
NewGetter(cls) ==
    IF cls = Req THEN "_get_clone_bio_rq_info_3_7" ELSE "_get_clone_bio_tio_3_15"

\* self._get_clone_bio_...: the attribute of the instance if it has one, else
\* the attribute of its class
GetterOf(d) == IF d.getter # "Unset" THEN d.getter ELSE cls_getter[d.cls]

\* the probe: 'clone' in self._types.<tracking type>.target()
Probe(cls) == has_clone[cls]

\* __init__ of either class: the new instance, and whether the probe ran
Construct(cls, bio) ==
    LET fresh == [cls |-> cls, bio |-> bio, getter |-> "Unset", info |-> Unset,
                  tio |-> Unset, next_bio |-> Unset, interp |-> "none"]
        probing == GetterOf(fresh) = NoGetter
        getter == IF Probe(cls) THEN NewGetter(cls) ELSE OldGetter(cls)
    IN  [d |-> IF probing THEN [fresh EXCEPT !.getter = getter] ELSE fresh,
         probed |-> probing]

\* (mutation of _get_clone_bio_rq_info_old: the bio itself is cast, not its
\* bi_private field)
_get_clone_bio_rq_info_old_nopriv(bio) ==
    Cast(bio, TypeTarget("dm_rq_clone_bio_info_p_type"))

_get_clone_bio_rq_info_old(bio) ==
    IF TypeDeclared(Req, "dm_rq_clone_bio_info_p_type")
    THEN Cast(GetItem(bio, "bi_private"), TypeTarget("dm_rq_clone_bio_info_p_type"))
    ELSE Raised("AttributeError")

_get_clone_bio_rq_info_3_7(bio) ==
    IF TypeDeclared(Req, "dm_rq_clone_bio_info_p_type")
    THEN container_of(bio, TypeTarget("dm_rq_clone_bio_info_p_type"), "clone")
    ELSE Raised("AttributeError")

_get_clone_bio_tio_old(bio) ==
    IF TypeDeclared(Bio, "dm_target_io_p_type")
    THEN Cast(GetItem(bio, "bi_private"), TypeTarget("dm_target_io_p_type"))
    ELSE Raised("AttributeError")

_get_clone_bio_tio_3_15(bio) ==
    IF TypeDeclared(Bio, "dm_clone_bio_info_p_type")
    THEN container_of(GetItem(bio, "bi_private"), TypeTarget("dm_clone_bio_info_p_type"), "clone")
    ELSE Raised("AttributeError")

\* self._get_clone_bio_...(self.bio)
CallGetter(d) ==
    LET g == GetterOf(d)
    IN  CASE g = "_get_clone_bio_rq_info_old" -> _get_clone_bio_rq_info_old(d.bio)
          [] g = "_get_clone_bio_rq_info_3_7" -> _get_clone_bio_rq_info_3_7(d.bio)
          [] g = "_get_clone_bio_tio_old" -> _get_clone_bio_tio_old(d.bio)
          [] g = "_get_clone_bio_tio_3_15" -> _get_clone_bio_tio_3_15(d.bio)
          [] OTHER -> Raised("TypeError")

\* interpret() of either class: the instance afterwards and the outcome
InterpretOp(d) ==
    LET first == CallGetter(d)
    IN  IF IsError(first)
        THEN [d |-> [d EXCEPT !.interp = "failed"], ok |-> FALSE, err |-> first.ty]
        ELSE IF d.cls = Req
        THEN LET d1 == [d EXCEPT !.info = first]
                 tio == GetItem(d1.info, "tio")
             IN  IF IsError(tio)
                 THEN [d |-> [d1 EXCEPT !.interp = "failed"], ok |-> FALSE, err |-> tio.ty]
                 ELSE [d |-> [d1 EXCEPT !.tio = tio, !.interp = "done"],
                       ok |-> TRUE, err |-> "none"]
        ELSE LET d1 == [d EXCEPT !.tio = first]
                 nb == GetItem(GetItem(d1.tio, "io"), "bio")
             IN  IF IsError(nb)
                 THEN [d |-> [d1 EXCEPT !.interp = "failed"], ok |-> FALSE, err |-> nb.ty]
                 ELSE [d |-> [d1 EXCEPT !.next_bio = nb, !.interp = "done"],
                       ok |-> TRUE, err |-> "none"]

\* (mutation of ReadAttrOp: an attribute never assigned reads as None)
ReadAttrOp_default(d, name) ==
    LET v == CASE name = "info" -> d.info
               [] name = "tio" -> d.tio
               [] name = "next_bio" -> d.next_bio
               [] OTHER -> Unset
    IN  IF v = Unset THEN None ELSE v

\* reading an attribute of an instance: one never assigned raises AttributeError
ReadAttrOp(d, name) ==
    LET v == CASE name = "info" -> d.info
               [] name = "tio" -> d.tio
               [] name = "next_bio" -> d.next_bio
               [] OTHER -> Unset
    IN  IF v = Unset THEN Raised("AttributeError") ELSE v

\* _description.format(...) of each class
ReqDescription(bio) ==
    <<Hex(bio.a), " bio: Request-based Device Mapper on ",
      block_device_name(GetItem(bio, "bi_bdev"))>>
BioDescription(bio, next_bio) ==
    <<Hex(bio.a), " bio: device mapper clone: ",
      block_device_name(GetItem(bio, "bi_bdev")), "[", GetItem(bio, "bi_sector").a,
      "] -> ",
      block_device_name(GetItem(next_bio, "bi_bdev")), "[", GetItem(next_bio, "bi_sector").a,
      "]">>

\* __str__ of either class: what the method returns
StrOp(d) ==
    IF d.cls = Req
    THEN LET formatted == ReqDescription(d.bio)
         IN  [ok |-> TRUE, err |-> "none", val |-> None, text |-> <<>>]
    ELSE LET nb == ReadAttrOp(d, "next_bio")
         IN  IF IsError(nb)
             THEN [ok |-> FALSE, err |-> nb.ty, val |-> None, text |-> <<>>]
             ELSE [ok |-> TRUE, err |-> "none", val |-> [k |-> "str", a |-> 0, ty |-> "str"],
                   text |-> BioDescription(d.bio, nb)]

\* the argument __next__ of either class passes to decode_bio
NextArg(d) ==
    IF d.cls = Req
    THEN GetItem(ReadAttrOp(d, "info"), "orig")
    ELSE ReadAttrOp(d, "next_bio")

\* crash.subsystem.storage.decoders.decode_bio: the decoder registered for the
\* completion callback of the bio, constructed on it, or no match
decode_bio(bio) ==
    LET cls == Lookup(EndioAt(bio.a))
    IN  IF cls = NoMatch
        THEN [match |-> FALSE, cls |-> NoMatch, probed |-> FALSE, new |-> <<>>]
        ELSE LET made == Construct(cls, bio)
             IN  [match |-> TRUE, cls |-> cls, probed |-> made.probed, new |-> <<made.d>>]

AddProbe(dec) == IF dec.probed THEN [probes EXCEPT ![dec.cls] = @ + 1] ELSE probes

NoRes == [op |-> "none", i |-> 0, name |-> "", ok |-> TRUE, err |-> "none",
          val |-> None, text |-> <<>>, arg |-> None, ret |-> 0]

----------------------------------------------------------------------------
(* Operations on the decoders *)

\* a caller hands bio k of the snapshot to decode_bio
DecodeBio(k) ==
    /\ Len(inst) < MaxInst
    /\ LET bio == Ptr(BioAddr(k), "bio")
           dec == decode_bio(bio)
       IN  /\ inst' = inst \o dec.new
           /\ probes' = AddProbe(dec)
           /\ res' = [NoRes EXCEPT !.op = "decode_bio", !.arg = bio,
                                   !.ret = IF dec.match THEN Len(inst) + 1 ELSE 0]
    /\ UNCHANGED <<has_clone, missing, chain, cls_getter, walk>>
    /\ UNCHANGED archVars

Interpret(i) ==
    /\ LET r == InterpretOp(inst[i])
       IN  /\ inst' = [inst EXCEPT ![i] = r.d]
           /\ res' = [NoRes EXCEPT !.op = "interpret", !.i = i, !.ok = r.ok, !.err = r.err]
    /\ UNCHANGED <<has_clone, missing, chain, cls_getter, probes, walk>>
    /\ UNCHANGED archVars

ReadAttr(i, name) ==
    /\ LET v == ReadAttrOp(inst[i], name)
       IN  res' = [NoRes EXCEPT !.op = "read", !.i = i, !.name = name, !.ok = ~IsError(v),
                                !.err = IF IsError(v) THEN v.ty ELSE "none",
                                !.val = IF IsError(v) THEN None ELSE v]
    /\ UNCHANGED <<has_clone, missing, chain, cls_getter, probes, inst, walk>>
    /\ UNCHANGED archVars

Str(i) ==
    /\ LET r == StrOp(inst[i])
       IN  res' = [NoRes EXCEPT !.op = "str", !.i = i, !.ok = r.ok, !.err = r.err,
                                !.val = r.val, !.text = r.text]
    /\ UNCHANGED <<has_clone, missing, chain, cls_getter, probes, inst, walk>>
    /\ UNCHANGED archVars

NextDecoder(i) ==
    /\ LET arg == NextArg(inst[i])
       IN  IF IsError(arg)
           THEN /\ res' = [NoRes EXCEPT !.op = "next", !.i = i, !.ok = FALSE, !.err = arg.ty]
                /\ UNCHANGED <<inst, probes>>
           ELSE LET dec == decode_bio(arg)
                IN  /\ Len(inst) + Len(dec.new) <= MaxInst
                    /\ inst' = inst \o dec.new
                    /\ probes' = AddProbe(dec)
                    /\ res' = [NoRes EXCEPT !.op = "next", !.i = i, !.arg = arg,
                                            !.ret = IF dec.match THEN Len(inst) + 1 ELSE 0]
    /\ UNCHANGED <<has_clone, missing, chain, cls_getter, walk>>
    /\ UNCHANGED archVars

----------------------------------------------------------------------------
(* The chain walker: decode, interpret, describe, advance, until no decoder matches *)

IdleWalk == [pc |-> "idle", cur |-> 0, layers |-> <<>>, advances |-> 0, origin |-> 0 - 1]

WalkStart ==
    /\ walk.pc = "idle"
    /\ LET bio == Ptr(BioAddr(1), "bio")
           dec == decode_bio(bio)
       IN  /\ inst' = inst \o dec.new
           /\ probes' = AddProbe(dec)
           /\ res' = [NoRes EXCEPT !.op = "decode_bio", !.arg = bio,
                                   !.ret = IF dec.match THEN Len(inst) + 1 ELSE 0]
           /\ walk' = IF dec.match
                      THEN [walk EXCEPT !.pc = "interpret", !.cur = Len(inst) + 1]
                      ELSE [walk EXCEPT !.pc = "done", !.origin = bio.a]
    /\ UNCHANGED <<has_clone, missing, chain, cls_getter>>
    /\ UNCHANGED archVars

WalkInterpret ==
    /\ walk.pc = "interpret"
    /\ LET r == InterpretOp(inst[walk.cur])
       IN  /\ inst' = [inst EXCEPT ![walk.cur] = r.d]
           /\ res' = [NoRes EXCEPT !.op = "interpret", !.i = walk.cur, !.ok = r.ok,
                                   !.err = r.err]
           /\ walk' = IF r.ok
                      THEN [walk EXCEPT !.pc = "describe",
                                        !.layers = Append(@, inst[walk.cur].bio.a)]
                      ELSE [walk EXCEPT !.pc = "failed"]
    /\ UNCHANGED <<has_clone, missing, chain, cls_getter, probes>>
    /\ UNCHANGED archVars

WalkDescribe ==
    /\ walk.pc = "describe"
    /\ LET r == StrOp(inst[walk.cur])
       IN  res' = [NoRes EXCEPT !.op = "str", !.i = walk.cur, !.ok = r.ok, !.err = r.err,
                                !.val = r.val, !.text = r.text]
    /\ walk' = [walk EXCEPT !.pc = "advance"]
    /\ UNCHANGED <<has_clone, missing, chain, cls_getter, probes, inst>>
    /\ UNCHANGED archVars

WalkAdvance ==
    /\ walk.pc = "advance"
    /\ LET arg == NextArg(inst[walk.cur])
       IN  IF IsError(arg)
           THEN /\ res' = [NoRes EXCEPT !.op = "next", !.i = walk.cur, !.ok = FALSE,
                                        !.err = arg.ty]
                /\ walk' = [walk EXCEPT !.pc = "failed", !.advances = @ + 1]
                /\ UNCHANGED <<inst, probes>>
           ELSE LET dec == decode_bio(arg)
                IN  /\ inst' = inst \o dec.new
                    /\ probes' = AddProbe(dec)
                    /\ res' = [NoRes EXCEPT !.op = "next", !.i = walk.cur, !.arg = arg,
                                            !.ret = IF dec.match THEN Len(inst) + 1 ELSE 0]
                    /\ walk' = IF dec.match
                               THEN [walk EXCEPT !.pc = "interpret", !.advances = @ + 1,
                                                 !.cur = Len(inst) + 1]
                               ELSE [walk EXCEPT !.pc = "done", !.advances = @ + 1,
                                                 !.origin = arg.a]
    /\ UNCHANGED <<has_clone, missing, chain, cls_getter>>
    /\ UNCHANGED archVars

----------------------------------------------------------------------------
(* Sessions and specifications *)

OriginEndio == "end_bio_bh_io_sync"
Chains ==
    {layers \o <<OriginEndio>> :
        layers \in UNION {[1 .. n -> {Endio(c) : c \in Classes}] : n \in 0 .. MaxChain}}
MissingSets == {{}, {"tio"}, {"orig"}, {"io"}}

DmInit ==
    /\ has_clone \in [Classes -> BOOLEAN]
    /\ missing \in MissingSets
    /\ chain \in Chains
    /\ cls_getter = [c \in Classes |-> NoGetter]
    /\ probes = [c \in Classes |-> 0]
    /\ inst = <<>>
    /\ res = NoRes
    /\ walk = IdleWalk

\* one fixed session of the other part
ArchFixed ==
    /\ ArchInit
    /\ arch_rip = 17
    /\ unreadable = {}
    /\ mem[1] = 4
    /\ \A t \in Threads : ~active[t] /\ task_sp[t] = 0
    /\ registers[1]["rax"] = 4
DmFixed ==
    /\ DmInit
    /\ has_clone = [c \in Classes |-> FALSE]
    /\ missing = {}
    /\ chain = <<OriginEndio>>

ArchNext ==
    \/ \E t \in Threads : SetupThreadActive(t)
    \/ \E t \in Threads : SetupThreadScheduled(t)

DmNext ==
    \/ \E k \in 1 .. NBios : DecodeBio(k)
    \/ \E i \in 1 .. Len(inst) : Interpret(i)
    \/ \E i \in 1 .. Len(inst) : \E name \in {"info", "tio", "next_bio"} : ReadAttr(i, name)
    \/ \E i \in 1 .. Len(inst) : Str(i)
    \/ \E i \in 1 .. Len(inst) : NextDecoder(i)

WalkNext ==
    \/ WalkStart
    \/ WalkInterpret
    \/ WalkDescribe
    \/ WalkAdvance

InitArch ==
    /\ ArchInit
    /\ DmFixed
InitDM ==
    /\ ArchFixed
    /\ DmInit

SpecArch == InitArch /\ [][ArchNext]_vars
SpecDM == InitDM /\ [][DmNext]_vars
SpecWalk == InitDM /\ [][WalkNext]_vars

----------------------------------------------------------------------------
(* Properties of the architecture part, checked under SpecArch *)

\* C2: setup_thread_active writes every register of the snapshot that is not one
\* of gs_base, orig_ax, rflags, fs_base exactly once, with the snapshot's value,
\* and writes no other register: those keep the value they had before the call.
SetupActiveCopiesExactlyOnce ==
    last.op = "active" =>
        LET t == last.t
            snap == task_regs[t]
            copied == (DOMAIN snap) \ {"gs_base", "orig_ax", "rflags", "fs_base"}
        IN  \A r \in RegNames :
                IF r \in copied
                THEN registers[t][r] = snap[r] /\ last.cnt[r] = 1
                ELSE registers[t][r] = last.before[r] /\ last.cnt[r] = 0

\* a call that copied a register, skipped an excluded one whose snapshot value
\* differs from the bank's, on a snapshot that lacks some register
SetupActiveWitness ==
    /\ last.op = "active"
    /\ LET t == last.t
           snap == task_regs[t]
       IN  /\ \E r \in (DOMAIN snap) \ {"gs_base", "orig_ax", "rflags", "fs_base"} :
                  last.before[r] # registers[t][r]
           /\ \E r \in {"gs_base", "orig_ax", "rflags", "fs_base"} :
                  r \in DOMAIN snap /\ snap[r] # registers[t][r]
           /\ \E r \in RegNames : r \notin DOMAIN snap

\* the word k word-widths below fp in the snapshot
WordBelow(fp, k) == mem[(fp + AddrSpace - 8 * k) % AddrSpace]

\* C3: once setup_thread_scheduled has completed on a thread, with fp the word at
\* the task's saved stack pointer, rbx, r12, r13, r14, r15 are the words 1 to 5
\* word-widths below fp, rsp is the saved stack pointer and rbp is fp, whatever
\* was set up before and whatever the bank held.
ScheduledRegistersFromStack ==
    \A t \in Threads :
        done[t] = "scheduled" =>
            LET sp == task_sp[t]
                fp == mem[sp]
            IN  /\ registers[t]["rsp"] = sp
                /\ registers[t]["rbp"] = fp
                /\ registers[t]["rbx"] = WordBelow(fp, 1)
                /\ registers[t]["r12"] = WordBelow(fp, 2)
                /\ registers[t]["r13"] = WordBelow(fp, 3)
                /\ registers[t]["r14"] = WordBelow(fp, 4)
                /\ registers[t]["r15"] = WordBelow(fp, 5)

\* a scheduled thread set up after another thread was, with a frame pointer low
\* enough that the words below it wrap around the address space
ScheduledRegistersWitness ==
    \E t, u \in Threads :
        /\ t # u
        /\ done[u] # "no"
        /\ last.op = "scheduled" /\ last.t = t /\ last.ok
        /\ done[t] = "scheduled"
        /\ mem[task_sp[t]] < 5 * 8
        /\ registers[t]["rbx"] # last.before["rbx"]

\* C4: every scheduled thread that has been set up has rip equal to the address
\* of 'thread_return' the architecture resolved, and that address never changes.
RipIsThreadReturn ==
    /\ [](\A t \in Threads : done[t] = "scheduled" => registers[t]["rip"] = arch_rip)
    /\ [][arch_rip' = arch_rip]_vars

\* two scheduled threads set up, whose rip held another value before
RipWitness ==
    /\ \A t \in Threads : done[t] = "scheduled"
    /\ task_sp[1] # task_sp[2]
    /\ last.op = "scheduled"
    /\ last.before["rip"] # arch_rip

\* some read of setup_thread_scheduled on thread t fails
SomeReadFails(t) ==
    \/ task_sp[t] = NoField
    \/ /\ task_sp[t] # NoField
       /\ \/ task_sp[t] \in unreadable
          \/ \E k \in 1 .. 5 : ((mem[task_sp[t]] + AddrSpace - 8 * k) % AddrSpace) \in unreadable

----------------------------------------------------------------------------
(* Properties of the decoders, checked under SpecDM *)

\* C1: the layout probe of a decoder variant runs at most once in a session,
\* however many instances of the variant are constructed.
ProbeAtMostOnce ==
    \A c \in Classes : probes[c] <= 1

\* C6: describe() of either variant, after a successful interpret(), returns the
\* identification string of the layer.
DescribeReturnsIdentification ==
    (res.op = "str" /\ inst[res.i].interp = "done") =>
        LET d == inst[res.i]
        IN  /\ res.ok
            /\ res.val.k = "str"
            /\ res.text = IF d.cls = Req THEN ReqDescription(d.bio)
                          ELSE BioDescription(d.bio, d.next_bio)

\* C7: under the direct-pointer layout, with the fields 'tio' and 'orig' present,
\* interpret() of a request-based decoder succeeds and exposes as tio the value A
\* of the 'tio' field of the block the bio's bi_private points to, and advance()
\* then passes the block's 'orig' value B, the next bio, to decode_bio.
ReqInterpretExposesTioAndOrig ==
    (~has_clone[Req] /\ "tio" \notin missing /\ "orig" \notin missing) =>
        \A i \in 1 .. Len(inst) :
            inst[i].cls = Req =>
                LET k == BioIdx(inst[i].bio.a)
                IN  /\ (res.op = "interpret" /\ res.i = i) => res.ok
                    /\ inst[i].interp = "done" =>
                           inst[i].tio = Ptr(RqTioAddr(k), "dm_rq_target_io")
                    /\ (res.op = "next" /\ res.i = i /\ inst[i].interp = "done") =>
                           /\ res.ok
                           /\ res.arg = Ptr(BioAddr(k + 1), "bio")

\* an interpreted request-based decoder, direct-pointer layout, whose advance()
\* has handed its ancestor to decode_bio
ReqInterpretWitness ==
    /\ ~has_clone[Req]
    /\ missing = {}
    /\ res.op = "next"
    /\ res.ok
    /\ inst[res.i].cls = Req
    /\ inst[res.i].interp = "done"
    /\ inst[res.i].tio.k = "ptr"
    /\ res.arg.a # inst[res.i].bio.a

\* the attribute advance() reads first
AdvanceReads(cls) == IF cls = Req THEN "info" ELSE "next_bio"
AttrOf(d, name) ==
    CASE name = "info" -> d.info
      [] name = "tio" -> d.tio
      [] name = "next_bio" -> d.next_bio

\* C8 as stated: any read of info, tio or next_bio, any describe() and any
\* advance() on an instance whose interpret() has not completed fails.
AccessBeforeInterpretFails ==
    (res.op \in {"read", "str", "next"} /\ inst[res.i].interp # "done") => ~res.ok

\* C8 as amended: an instance never interpreted has none of info, tio, next_bio; a
\* derived field an instance has is the one its own interpret() computed from its
\* own bio; reading a derived field the instance lacks raises AttributeError, and
\* so do advance() of either variant and describe() of the bio-based variant when
\* the field they read is lacking; describe() of the request-based variant reads
\* no derived field and raises no error, interpreted or not.
AccessOfUnassignedFieldFails ==
    /\ \A i \in 1 .. Len(inst) :
           LET d == inst[i]
               k == BioIdx(d.bio.a)
           IN  /\ d.interp = "none" =>
                      d.info = Unset /\ d.tio = Unset /\ d.next_bio = Unset
               /\ d.info # Unset =>
                      d.cls = Req /\ d.info = Ptr(TrackAddr(k), "dm_rq_clone_bio_info")
               /\ d.tio # Unset =>
                      d.tio = IF d.cls = Req THEN Ptr(RqTioAddr(k), "dm_rq_target_io")
                              ELSE Ptr(TrackAddr(k), "dm_target_io")
               /\ d.next_bio # Unset =>
                      d.cls = Bio /\ d.next_bio = Ptr(BioAddr(k + 1), "bio")
    /\ res.op = "read" =>
           LET v == AttrOf(inst[res.i], res.name)
           IN  IF v = Unset THEN ~res.ok /\ res.err = "AttributeError"
               ELSE res.ok /\ res.val = v
    /\ res.op = "next" =>
           (AttrOf(inst[res.i], AdvanceReads(inst[res.i].cls)) = Unset =>
                ~res.ok /\ res.err = "AttributeError")
    /\ res.op = "str" =>
           IF inst[res.i].cls = Bio
           THEN inst[res.i].next_bio = Unset => (~res.ok /\ res.err = "AttributeError")
           ELSE res.ok

\* a read that failed on an instance never interpreted, while another instance
\* of the same variant, on the same bio, has been interpreted
AccessWitness ==
    \E i, j \in 1 .. Len(inst) :
        /\ i # j
        /\ inst[i].cls = inst[j].cls
        /\ inst[i].bio = inst[j].bio
        /\ inst[j].interp = "done"
        /\ inst[i].interp = "none"
        /\ res.op = "read" /\ res.i = i /\ ~res.ok

\* C9: with every field present, interpret() of either variant succeeds under
\* either layout and yields the tracking object of the bio, and for the bio-based
\* variant the ancestor bio tio.io.bio.
InterpretSucceedsInBothLayouts ==
    (res.op = "interpret" /\ missing = {}) =>
        LET d == inst[res.i]
            k == BioIdx(d.bio.a)
        IN  /\ res.ok
            /\ d.cls = Req =>
                   /\ d.info = Ptr(TrackAddr(k), "dm_rq_clone_bio_info")
                   /\ d.tio = Ptr(RqTioAddr(k), "dm_rq_target_io")
            /\ d.cls = Bio =>
                   /\ d.tio = Ptr(TrackAddr(k), "dm_target_io")
                   /\ d.next_bio = Ptr(BioAddr(k + 1), "bio")

----------------------------------------------------------------------------
(* Property of the chain walk, checked under SpecWalk *)

\* C5: with every field present, the walk of a chain of n cloned bios ends
\* having decoded the n layers child first, with n calls of advance(), and
\* reports the bio after the last clone as the origin.
WalkDecodesEveryLayer ==
    (missing = {} /\ walk.pc \in {"done", "failed"}) =>
        /\ walk.pc = "done"
        /\ walk.layers = [k \in 1 .. (NBios - 1) |-> BioAddr(k)]
        /\ walk.advances = NBios - 1
        /\ walk.origin = BioAddr(NBios)

====
